---- MODULE Spec2Model ----
(***************************************************************************)
(* Model of the SonarQube step implementer                                 *)
(* (tssc/step_implementers/static_code_analysis/sonarqube.py).             *)
(*                                                                         *)
(* One call of run() is: the engine validates the merged runtime step      *)
(* configuration (_validate_runtime_step_config), then _run_step resolves  *)
(* the optional credentials, reads the generate-metadata version, checks   *)
(* the properties file, invokes sonar-scanner and builds the results.      *)
(*                                                                         *)
(* Python values: a str is a TLA+ string inside Str(_); None is the record *)
(* None.  A dict is a function whose DOMAIN is its key set.                *)
(***************************************************************************)
EXTENDS Integers, Sequences, FiniteSets, TLC

VARIABLES
    config,             \* merged runtime step configuration (dict)
    step_results,       \* results of previous steps (dict: step name -> dict)
    files,              \* paths that exist on disk
    workspace_dir,      \* what get_working_dir() returns for this step
    pc,                 \* position of the current run() call
    calls,              \* run() calls started so far
    user,               \* local of _run_step
    password,           \* local of _run_step
    version,            \* local of _run_step
    properties_file,    \* local of _run_step
    working_directory,  \* local of _run_step
    args,               \* argument list of the last sonar-scanner invocation
    invocations,        \* sonar-scanner processes started by the current call
    exit_code,          \* exit status of the last sonar-scanner process
    results,            \* the dict returned by the current call
    built,              \* results dicts constructed by the current call
    error,              \* the exception raised out of the current call
    stages              \* stages the current call has completed, in order

vars == <<config, step_results, files, workspace_dir, pc, calls, user, password,
          version, properties_file, working_directory, args, invocations,
          exit_code, results, built, error, stages>>

----------------------------------------------------------------------------
(* Bounds *)

\* run() calls made on one step instance
MaxCalls == 2

----------------------------------------------------------------------------
(* Python values *)

None == [tag |-> "None"]

Str(s) == [tag |-> "str", s |-> s]

\* Python truthiness of None or a str
Truthy(v) == v # None /\ v.s # ""

----------------------------------------------------------------------------
(* Module constants *)

DEFAULT_CONFIG == [properties |-> Str("./sonar-project.properties")]

AUTHENTICATION_CONFIG == {"user", "password"}


\* a required key left out of the list
REQUIRED_CONFIG_KEYS_without_service == {"url", "application-name"}

REQUIRED_CONFIG_KEYS == {"url", "application-name", "service-name"}

----------------------------------------------------------------------------
(* The inputs a step instance is constructed with *)

UserValues == {None, Str(""), Str("u")}
PasswordValues == {None, Str(""), Str("p")}
UrlValues == {Str("https://sonar.example.com")}
AppValues == {Str("app")}
ServiceValues == {Str("svc")}
PropertiesValues == {None, Str(""), Str("./custom.properties")}
DiskFiles == {"./sonar-project.properties", "./custom.properties"}
WorkingDirs == {"/work", "/folder/tssc-working/static_code_analysis"}
ExitCodes == {0, 1, 2}

\* a generate-metadata result: empty, without version, empty version, a version
MetadataResults == {[x \in {} |-> None],
                    [x \in {"app-version"} |-> Str("1.2.3")],
                    [version |-> Str("")],
                    [version |-> Str("1.2.3")]}

OptionalKey(k, values) == {[x \in {} |-> None]} \cup {[x \in {k} |-> v] : v \in values}

\* dict union, the right operand winning
Merge(d1, d2) ==
    [k \in DOMAIN d1 \cup DOMAIN d2 |-> IF k \in DOMAIN d2 THEN d2[k] ELSE d1[k]]

\* the step configuration the engine merges over the implementer's defaults
StepConfigs ==
    { Merge(Merge(Merge(Merge(Merge(u, p), l), a), s), f) :
        u \in OptionalKey("user", UserValues),
        p \in OptionalKey("password", PasswordValues),
        l \in OptionalKey("url", UrlValues),
        a \in OptionalKey("application-name", AppValues),
        s \in OptionalKey("service-name", ServiceValues),
        f \in OptionalKey("properties", PropertiesValues) }

step_implementer_config_defaults == DEFAULT_CONFIG

required_runtime_step_config_keys == REQUIRED_CONFIG_KEYS

----------------------------------------------------------------------------
(* Accessors of the StepImplementer base class *)

get_config_value(key) == IF key \in DOMAIN config THEN config[key] ELSE None

has_config_value(keys) == \A key \in keys : key \in DOMAIN config

get_step_results(step) ==
    IF step \in DOMAIN step_results THEN step_results[step] ELSE None

\* dict.get(key)
DictGet(d, key) == IF key \in DOMAIN d THEN d[key] ELSE None

get_working_dir == workspace_dir

os_path_exists(path) == path \in files

----------------------------------------------------------------------------
(* Exceptions and results *)

NoError == [type |-> "none", msg |-> "", cause |-> "none"]

NoResult == [x \in {} |-> None]

Exception(type, msg) == [type |-> type, msg |-> msg, cause |-> "none"]

RequiredKeyMessage == "missing required step configuration"

CredentialMessage ==
    "Either username or password is not set. Neither or both must be set."

VersionMessage ==
    "Severe error: Generate-metadata results is missing a version tag"

PropertiesMessage == "Properties file in tssc config not found: "

ConcatMessage == "can only concatenate str (not \"NoneType\") to str"

\* the class sh raises for a non-zero exit status
ErrorReturnCode(code) ==
    CASE code = 1 -> "ErrorReturnCode_1"
      [] code = 2 -> "ErrorReturnCode_2"
      [] OTHER -> "ErrorReturnCode"

----------------------------------------------------------------------------
(* SonarQube._validate_runtime_step_config *)

\* StepImplementer._validate_runtime_step_config: every required key is there
SuperValidate(runtime_step_config) ==
    \A element \in required_runtime_step_config_keys :
        element \in DOMAIN runtime_step_config


\* `any` written where `all` is meant: every configuration is accepted
CredentialPairValid_any(runtime_step_config) ==
    \/ \E element \in AUTHENTICATION_CONFIG : element \in DOMAIN runtime_step_config
    \/ ~ \E element \in AUTHENTICATION_CONFIG : element \in DOMAIN runtime_step_config

CredentialPairValid(runtime_step_config) ==
    \/ \A element \in AUTHENTICATION_CONFIG : element \in DOMAIN runtime_step_config
    \/ ~ \E element \in AUTHENTICATION_CONFIG : element \in DOMAIN runtime_step_config

\* the AssertionError the validation raises, or NoError
validate_runtime_step_config(runtime_step_config) ==
    IF ~ SuperValidate(runtime_step_config)
    THEN Exception("AssertionError", RequiredKeyMessage)
    ELSE IF ~ CredentialPairValid(runtime_step_config)
         THEN Exception("AssertionError", CredentialMessage)
         ELSE NoError

----------------------------------------------------------------------------
(* SonarQube._run_step: its conditions and the values it builds *)

CredentialsConfigured ==
    /\ has_config_value(AUTHENTICATION_CONFIG)
    /\ Truthy(get_config_value("user"))
    /\ Truthy(get_config_value("password"))

\* Python truthiness of a dict or None
DictTruthy(d) == d # None /\ DOMAIN d # {}


\* the version key is looked up but its value is not tested
VersionAvailable_key_only ==
    /\ DictTruthy(get_step_results("generate-metadata"))
    /\ DictGet(get_step_results("generate-metadata"), "version") # None

VersionAvailable ==
    /\ DictTruthy(get_step_results("generate-metadata"))
    /\ Truthy(DictGet(get_step_results("generate-metadata"), "version"))

PropertiesFound(file) == Truthy(file) /\ os_path_exists(file.s)


\* the separator of the module docstring's example call
ProjectKey_dot(application_name, service_name) ==
    application_name \o "." \o service_name

ProjectKey(application_name, service_name) ==
    application_name \o ":" \o service_name

NonCredentialedArgs(properties, url, ver, application_name, service_name, dir) ==
    << "-Dproject.settings=" \o properties,
       "-Dsonar.host.url=" \o url,
       "-Dsonar.projectVersion=" \o ver,
       "-Dsonar.projectKey=" \o ProjectKey(application_name, service_name),
       "-Dsonar.working.directory=" \o dir >>


\* the password argument forgotten
CredentialedArgs_no_password(properties, url, ver, application_name, service_name, usr, pwd, dir) ==
    << "-Dproject.settings=" \o properties,
       "-Dsonar.host.url=" \o url,
       "-Dsonar.projectVersion=" \o ver,
       "-Dsonar.projectKey=" \o application_name \o ":" \o service_name,
       "-Dsonar.login=" \o usr,
       "-Dsonar.working.directory=" \o dir >>

\* the credentials appended after the working directory
CredentialedArgs_appended(properties, url, ver, application_name, service_name, usr, pwd, dir) ==
    << "-Dproject.settings=" \o properties,
       "-Dsonar.host.url=" \o url,
       "-Dsonar.projectVersion=" \o ver,
       "-Dsonar.projectKey=" \o application_name \o ":" \o service_name,
       "-Dsonar.working.directory=" \o dir,
       "-Dsonar.login=" \o usr,
       "-Dsonar.password=" \o pwd >>

CredentialedArgs(properties, url, ver, application_name, service_name, usr, pwd, dir) ==
    << "-Dproject.settings=" \o properties,
       "-Dsonar.host.url=" \o url,
       "-Dsonar.projectVersion=" \o ver,
       "-Dsonar.projectKey=" \o ProjectKey(application_name, service_name),
       "-Dsonar.login=" \o usr,
       "-Dsonar.password=" \o pwd,
       "-Dsonar.working.directory=" \o dir >>

\* the argument list of the branch `user == ''` selects
ScannerArgs(properties, url, ver, application_name, service_name, usr, pwd, dir) ==
    IF usr = ""
    THEN NonCredentialedArgs(properties, url, ver, application_name, service_name, dir)
    ELSE CredentialedArgs(properties, url, ver, application_name, service_name,
                          usr, pwd, dir)

ReportFile(dir) == dir \o "/report-task.txt"


\* the transport protocol left off the path
ReportArtifactPath_no_scheme(dir) == dir \o "/report-task.txt"

ReportArtifactPath(dir) == "file://" \o dir \o "/report-task.txt"

StepResults(dir) ==
    [result |-> [success |-> TRUE,
                 message |-> "sonarqube step completed - see report-artifacts"],
     report_artifacts |-> << [name |-> "sonarqube result set",
                              path |-> ReportArtifactPath(dir)] >>]


\* the failure reported as a result instead of raised
OnErrorReturnCode_result(code) ==
    [pc |-> "returned",
     error |-> NoError,
     results |-> [result |-> [success |-> FALSE,
                              message |-> "Error invoking sonarscanner: "
                                          \o ErrorReturnCode(code)],
                  report_artifacts |-> <<>>],
     built |-> 1]

\* the scanner run again after a failure
OnErrorReturnCode_retry(code) ==
    [pc |-> "invoke",
     error |-> NoError,
     results |-> NoResult,
     built |-> 0]

\* except sh.ErrorReturnCode: what the call ends with
OnErrorReturnCode(code) ==
    [pc |-> "raised",
     error |-> [type |-> "RuntimeError",
                msg |-> "Error invoking sonarscanner: " \o ErrorReturnCode(code),
                cause |-> ErrorReturnCode(code)],
     results |-> NoResult,
     built |-> 0]

----------------------------------------------------------------------------
(* State machine *)

Init ==
    /\ config \in {Merge(step_implementer_config_defaults, c) : c \in StepConfigs}
    /\ step_results \in
          {[x \in {} |-> None]}
          \cup {[x \in {"generate-metadata"} |-> r] : r \in MetadataResults}
    /\ files \in SUBSET DiskFiles
    /\ workspace_dir \in WorkingDirs
    /\ pc = "idle"
    /\ calls = 0
    /\ user = ""
    /\ password = ""
    /\ version = ""
    /\ properties_file = None
    /\ working_directory = ""
    /\ args = <<>>
    /\ invocations = 0
    /\ exit_code = 0
    /\ results = NoResult
    /\ built = 0
    /\ error = NoError
    /\ stages = <<>>

\* the engine calls run() on the step
CallRun ==
    /\ pc \in {"idle", "returned", "raised"}
    /\ calls < MaxCalls
    /\ calls' = calls + 1
    /\ pc' = "validate"
    /\ user' = ""
    /\ password' = ""
    /\ version' = ""
    /\ properties_file' = None
    /\ working_directory' = ""
    /\ args' = <<>>
    /\ invocations' = 0
    /\ exit_code' = 0
    /\ results' = NoResult
    /\ built' = 0
    /\ error' = NoError
    /\ stages' = <<>>
    /\ UNCHANGED <<config, step_results, files, workspace_dir>>

\* _validate_runtime_step_config(runtime_step_config)
ValidateRuntimeStepConfig ==
    /\ pc = "validate"
    /\ LET raised == validate_runtime_step_config(config) IN
         IF raised # NoError
         THEN /\ pc' = "raised"
              /\ error' = raised
              /\ stages' = stages
         ELSE /\ pc' = "credentials"
              /\ error' = error
              /\ stages' = Append(stages, "validate")
    /\ UNCHANGED <<config, step_results, files, workspace_dir, calls, user,
                   password, version, properties_file, working_directory, args,
                   invocations, exit_code, results, built>>

\* _run_step: Optional: user and password
ResolveCredentials ==
    /\ pc = "credentials"
    /\ IF CredentialsConfigured
       THEN /\ user' = get_config_value("user").s
            /\ password' = get_config_value("password").s
       ELSE /\ user' = ""
            /\ password' = ""
    /\ pc' = "version"
    /\ stages' = Append(stages, "credentials")
    /\ UNCHANGED <<config, step_results, files, workspace_dir, calls, version,
                   properties_file, working_directory, args, invocations,
                   exit_code, results, built, error>>

\* _run_step: Required: Get the generate-metadata.version
GetVersion ==
    /\ pc = "version"
    /\ IF VersionAvailable
       THEN /\ version' = get_step_results("generate-metadata")["version"].s
            /\ pc' = "properties"
            /\ error' = error
            /\ stages' = Append(stages, "version")
       ELSE /\ version' = version
            /\ pc' = "raised"
            /\ error' = Exception("ValueError", VersionMessage)
            /\ stages' = stages
    /\ UNCHANGED <<config, step_results, files, workspace_dir, calls, user,
                   password, properties_file, working_directory, args,
                   invocations, exit_code, results, built>>

\* _run_step: Required: properties and exists
CheckProperties ==
    /\ pc = "properties"
    /\ properties_file' = get_config_value("properties")
    /\ IF PropertiesFound(properties_file')
       THEN /\ pc' = "invoke"
            /\ error' = error
            /\ stages' = Append(stages, "properties")
       ELSE /\ pc' = "raised"
            /\ error' = IF properties_file' = None
                        THEN Exception("TypeError", ConcatMessage)
                        ELSE Exception("ValueError",
                                       PropertiesMessage \o properties_file'.s)
            /\ stages' = stages
    /\ UNCHANGED <<config, step_results, files, workspace_dir, calls, user,
                   password, version, working_directory, args, invocations,
                   exit_code, results, built>>

\* _run_step: sh.sonar_scanner(...) starts the process and waits for its exit
InvokeScanner ==
    /\ pc = "invoke"
    /\ working_directory' = get_working_dir
    /\ LET properties == get_config_value("properties")
           url == get_config_value("url")
           application_name == get_config_value("application-name")
           service_name == get_config_value("service-name")
       IN IF None \in {properties, url, application_name, service_name}
          THEN /\ pc' = "raised"
               /\ error' = Exception("TypeError", ConcatMessage)
               /\ UNCHANGED <<args, invocations, exit_code, files, stages>>
          ELSE /\ args' = ScannerArgs(properties.s, url.s, version,
                                      application_name.s, service_name.s,
                                      user, password, working_directory')
               /\ invocations' = invocations + 1
               /\ \E code \in ExitCodes : exit_code' = code
               /\ \E written \in BOOLEAN :
                     files' = IF written
                              THEN files \cup {ReportFile(working_directory')}
                              ELSE files
               /\ pc' = "exited"
               /\ error' = error
               /\ stages' = Append(stages, "invoke")
    /\ UNCHANGED <<config, step_results, workspace_dir, calls, user, password,
                   version, properties_file, results, built>>

\* _run_step: the except clause, or the results dict and the return
Report ==
    /\ pc = "exited"
    /\ IF exit_code # 0
       THEN LET outcome == OnErrorReturnCode(exit_code) IN
              /\ pc' = outcome.pc
              /\ error' = outcome.error
              /\ results' = outcome.results
              /\ built' = built + outcome.built
              /\ stages' = stages
       ELSE /\ pc' = "returned"
            /\ error' = error
            /\ results' = StepResults(working_directory)
            /\ built' = built + 1
            /\ stages' = Append(stages, "report")
    /\ UNCHANGED <<config, step_results, files, workspace_dir, calls, user,
                   password, version, properties_file, working_directory, args,
                   invocations, exit_code>>

Next ==
    \/ CallRun
    \/ ValidateRuntimeStepConfig
    \/ ResolveCredentials
    \/ GetVersion
    \/ CheckProperties
    \/ InvokeScanner
    \/ Report

Spec == Init /\ [][Next]_vars

----------------------------------------------------------------------------
(* Vocabulary of the properties, stated on the state alone *)

StartsWith(s, p) == Len(s) >= Len(p) /\ SubSeq(s, 1, Len(p)) = p

\* the text of an argument after its "-Dname=" prefix
ValueOf(s, p) == SubSeq(s, Len(p) + 1, Len(s))

Has(key) == key \in DOMAIN config

Finished == pc \in {"returned", "raised"}

Validated == pc \notin {"idle", "validate"}

Invoked == invocations > 0

RequiredKeysPresent == Has("url") /\ Has("application-name") /\ Has("service-name")

PartialCredentials == Has("user") # Has("password")

\* a value that is there and is not empty
NonEmpty(key) == Has(key) /\ config[key] \notin {None, Str("")}

NoVersion ==
    \/ "generate-metadata" \notin DOMAIN step_results
    \/ "version" \notin DOMAIN step_results["generate-metadata"]
    \/ step_results["generate-metadata"]["version"] \in {None, Str("")}

NoPropertiesFile ==
    \/ ~ NonEmpty("properties")
    \/ config["properties"].s \notin files

\* the arguments of the invocation that carry the given "-Dname=" prefix
ArgsNamed(prefix) == {i \in DOMAIN args : StartsWith(args[i], prefix)}

\* the value of the only argument with the prefix
ArgValue(prefix) ==
    ValueOf(args[CHOOSE i \in ArgsNamed(prefix) : TRUE], prefix)

----------------------------------------------------------------------------
(* C1: a configuration with exactly one of user/password makes run() fail   *)
(* with a configuration error (AssertionError) before sonar-scanner is      *)
(* invoked; with both or neither the credential assertion never fails, and  *)
(* with the required keys there the call goes on into _run_step.            *)
C1_CredentialPair ==
    Validated =>
        /\ PartialCredentials =>
              /\ pc = "raised"
              /\ error.type = "AssertionError"
              /\ invocations = 0
              /\ args = <<>>
        /\ ~ PartialCredentials =>
              /\ error # Exception("AssertionError", CredentialMessage)
              /\ RequiredKeysPresent => (stages # <<>> /\ stages[1] = "validate")

C1_Witness ==
    /\ pc = "raised"
    /\ RequiredKeysPresent
    /\ Has("user") /\ ~ Has("password")
    /\ error = Exception("AssertionError", CredentialMessage)

----------------------------------------------------------------------------
(* C2 as stated: the argument list carries one sonar.login and one          *)
(* sonar.password argument with the configured values if and only if both   *)
(* user and password are present in the merged configuration.               *)
C2_LoginIffPresent ==
    Invoked =>
        IF Has("user") /\ Has("password")
        THEN /\ Cardinality(ArgsNamed("-Dsonar.login=")) = 1
             /\ Cardinality(ArgsNamed("-Dsonar.password=")) = 1
        ELSE /\ ArgsNamed("-Dsonar.login=") = {}
             /\ ArgsNamed("-Dsonar.password=") = {}

(* C2 amended: the argument list carries exactly one sonar.login and one    *)
(* sonar.password argument, with the configured values, if and only if both *)
(* user and password are present with non-empty values; otherwise it        *)
(* carries neither.                                                         *)
C2_LoginIffNonEmpty ==
    Invoked =>
        IF NonEmpty("user") /\ NonEmpty("password")
        THEN /\ Cardinality(ArgsNamed("-Dsonar.login=")) = 1
             /\ Cardinality(ArgsNamed("-Dsonar.password=")) = 1
             /\ ArgValue("-Dsonar.login=") = config["user"].s
             /\ ArgValue("-Dsonar.password=") = config["password"].s
        ELSE /\ ArgsNamed("-Dsonar.login=") = {}
             /\ ArgsNamed("-Dsonar.password=") = {}

C2_Witness ==
    /\ Invoked
    /\ NonEmpty("user") /\ NonEmpty("password")
    /\ Len(args) = 7

----------------------------------------------------------------------------
(* C3 as stated: whenever the generate-metadata result is absent or has no  *)
(* non-empty version, sonar-scanner is never invoked and a finished call    *)
(* has raised the missing-version error.                                    *)
C3_NoVersionFails ==
    NoVersion =>
        /\ invocations = 0
        /\ Finished => error = Exception("ValueError", VersionMessage)

(* C3 amended: for every configuration that passes the runtime              *)
(* configuration validation, when the generate-metadata result is absent    *)
(* or has no non-empty version, sonar-scanner is never invoked and the call *)
(* ends by raising the missing-version error.                               *)
C3_NoVersionFailsAfterValidation ==
    NoVersion =>
        /\ invocations = 0
        /\ pc \notin {"properties", "invoke", "exited", "returned"}
        /\ (Finished /\ RequiredKeysPresent /\ ~ PartialCredentials) =>
              error = Exception("ValueError", VersionMessage)

C3_Witness ==
    /\ NoVersion
    /\ "generate-metadata" \in DOMAIN step_results
    /\ pc = "raised"
    /\ error = Exception("ValueError", VersionMessage)

----------------------------------------------------------------------------
(* C4: once a call has passed the validation and the version check, a       *)
(* properties value that is missing, empty or names no file on disk makes   *)
(* it end with the properties-file error (a ValueError whose message starts *)
(* with "Properties file in tssc config not found: ") and without any       *)
(* invocation of sonar-scanner.                                             *)
C4_PropertiesFileError ==
    (NoPropertiesFile /\ Len(stages) >= 3 /\ stages[3] = "version"
                      /\ pc # "properties") =>
        /\ pc = "raised"
        /\ error.type = "ValueError"
        /\ StartsWith(error.msg, PropertiesMessage)
        /\ invocations = 0

----------------------------------------------------------------------------
(* C5: a call whose sonar-scanner process exited with status zero returns   *)
(* success = True, the fixed message and exactly one report artifact,       *)
(* "sonarqube result set", at file://<dir>/report-task.txt where <dir> is   *)
(* the working directory handed to the scanner; whether the file exists     *)
(* plays no part.                                                           *)
C5_ZeroExitReturns ==
    (Finished /\ Invoked /\ exit_code = 0) =>
        /\ pc = "returned"
        /\ error = NoError
        /\ results =
              [result |-> [success |-> TRUE,
                           message |-> "sonarqube step completed - see report-artifacts"],
               report_artifacts |->
                  << [name |-> "sonarqube result set",
                      path |-> "file://"
                               \o ArgValue("-Dsonar.working.directory=")
                               \o "/report-task.txt"] >>]

C5_Witness ==
    /\ pc = "returned"
    /\ Len(results.report_artifacts) = 1
    /\ (ArgValue("-Dsonar.working.directory=") \o "/report-task.txt") \notin files

----------------------------------------------------------------------------
(* C6: a call whose sonar-scanner process exited with a non-zero status     *)
(* raises a RuntimeError that wraps the process failure, and no results     *)
(* dict is built or returned.                                               *)
C6_NonZeroExitRaises ==
    (Finished /\ Invoked /\ exit_code # 0) =>
        /\ pc = "raised"
        /\ error.type = "RuntimeError"
        /\ StartsWith(error.cause, "ErrorReturnCode")
        /\ results = NoResult
        /\ built = 0

C6_Witness ==
    /\ pc = "raised"
    /\ Invoked
    /\ exit_code = 2
    /\ error.type = "RuntimeError"

----------------------------------------------------------------------------
----------------------------------------------------------------------------
(* C8: when url, application-name or service-name is missing from the       *)
(* merged configuration, the call fails in validation with an               *)
(* AssertionError, sonar-scanner is not invoked, no argument is built, and  *)
(* the missing key still has no value.                                      *)
C8_RequiredKeys ==
    (Validated /\ ~ RequiredKeysPresent) =>
        /\ pc = "raised"
        /\ error.type = "AssertionError"
        /\ stages = <<>>
        /\ invocations = 0
        /\ args = <<>>
        /\ \A key \in {"url", "application-name", "service-name"} :
              ~ Has(key) => get_config_value(key) = None

C8_Witness ==
    /\ pc = "raised"
    /\ Has("url") /\ Has("application-name") /\ ~ Has("service-name")
    /\ error = Exception("AssertionError", RequiredKeyMessage)

----------------------------------------------------------------------------
(* C9: the credentialed argument list is the non-credentialed list for the  *)
(* same inputs with sonar.login and sonar.password, in that order, put      *)
(* immediately before the sonar.working.directory argument; the shared      *)
(* arguments are project.settings, sonar.host.url, sonar.projectVersion,    *)
(* sonar.projectKey, sonar.working.directory, in that order.                *)
C9_SharedArgs ==
    Invoked =>
        LET shared == NonCredentialedArgs(config["properties"].s, config["url"].s,
                                          version, config["application-name"].s,
                                          config["service-name"].s,
                                          working_directory)
            n == Len(args)
        IN /\ StartsWith(shared[1], "-Dproject.settings=")
           /\ StartsWith(shared[2], "-Dsonar.host.url=")
           /\ StartsWith(shared[3], "-Dsonar.projectVersion=")
           /\ StartsWith(shared[4], "-Dsonar.projectKey=")
           /\ StartsWith(shared[5], "-Dsonar.working.directory=")
           /\ IF user = ""
              THEN args = shared
              ELSE /\ n = 7
                   /\ SubSeq(args, 1, 4) = SubSeq(shared, 1, 4)
                   /\ args[5] = "-Dsonar.login=" \o user
                   /\ args[6] = "-Dsonar.password=" \o password
                   /\ args[7] = shared[5]

C9_Witness ==
    /\ Invoked
    /\ user = "u" /\ password = "p"
    /\ args[7] = "-Dsonar.working.directory=/work"

----------------------------------------------------------------------------
(* C10: a call invokes sonar-scanner at most once, and only after the       *)
(* version check and the properties check have passed, in that order; it    *)
(* builds a results dict at most once, and only after that one invocation   *)
(* exited with status zero; a call that has not ended always has a next     *)
(* step, and it ends returned with results and no error, or raised with an  *)
(* error and no results.                                                    *)
C10_LinearFlow ==
    /\ invocations <= 1
    /\ built <= 1
    /\ Invoked =>
          stages \in {<<"validate", "credentials", "version", "properties", "invoke">>,
                      <<"validate", "credentials", "version", "properties", "invoke",
                        "report">>}
    /\ (built > 0 \/ results # NoResult) =>
          /\ pc = "returned"
          /\ invocations = 1
          /\ exit_code = 0
    /\ pc = "returned" => (results # NoResult /\ built = 1 /\ error = NoError)
    /\ pc = "raised" => (error # NoError /\ results = NoResult /\ built = 0)
    /\ ~ Finished => (error = NoError /\ results = NoResult)
    /\ pc \notin {"idle", "returned", "raised"} =>
          ENABLED (ValidateRuntimeStepConfig \/ ResolveCredentials \/ GetVersion
                   \/ CheckProperties \/ InvokeScanner \/ Report)

C10_Witness ==
    /\ calls = 2
    /\ pc = "returned"
    /\ invocations = 1
    /\ built = 1

====
